---- MODULE Spec2Model ----
(***************************************************************************)
(* Model of neurosystems.read_edf (src/neurosystems/neurosystems.py): the  *)
(* one-pass parser that segments an eye-tracker ASC log into trials.       *)
(*                                                                         *)
(* A text is a sequence of one-character strings, so that find, slicing,   *)
(* split, int() and float() are computed on the characters as Python does. *)
(* A float is held exactly as a decimal [m, e] meaning m * 10^(-e), with   *)
(* trailing zeros of the fraction removed.                                 *)
(***************************************************************************)
EXTENDS Integers, Sequences, FiniteSets, TLC

(***************************************************************************)
(* Python string primitives                                                *)
(***************************************************************************)

Digits == <<"0", "1", "2", "3", "4", "5", "6", "7", "8", "9">>

IsDigit(c) == \E k \in 1..10 : Digits[k] = c

DigitVal(c) == (CHOOSE k \in 1..10 : Digits[k] = c) - 1

\* str.isspace for one character: the whitespace int() and float() strip
IsSpace(c) == c \in {" ", "\t", "\n"}

Min(a, b) == IF a < b THEN a ELSE b

Max(a, b) == IF a > b THEN a ELSE b

\* s.find(c) for a one-character c: 0-based index of the first c, or -1
Find(s, c) ==
    IF \E k \in 1..Len(s) : s[k] = c
    THEN (CHOOSE k \in 1..Len(s) : s[k] = c /\ \A j \in 1..(k - 1) : s[j] # c) - 1
    ELSE -1

\* Python's index normalisation for a slice bound
SliceIndex(n, len) == IF n < 0 THEN Max(n + len, 0) ELSE Min(n, len)

\* s[a:b], 0-based, negative bounds counted from the end
Slice(s, a, b) ==
    LET lo == SliceIndex(a, Len(s))
        hi == SliceIndex(b, Len(s))
    IN  IF lo >= hi THEN <<>> ELSE SubSeq(s, lo + 1, hi)

\* s[a:]
SliceFrom(s, a) == Slice(s, a, Len(s))

\* sub in s
Contains(sub, s) ==
    \E k \in 0..(Len(s) - Len(sub)) : SubSeq(s, k + 1, k + Len(sub)) = sub

\* s.split(c): the fields between the occurrences of c
RECURSIVE Split(_, _)
Split(s, c) ==
    LET k == Find(s, c)
    IN  IF k = -1 THEN <<s>>
        ELSE <<Slice(s, 0, k)>> \o Split(SliceFrom(s, k + 1), c)

\* s.replace(' ', '')
RECURSIVE RemoveSpaces(_)
RemoveSpaces(s) ==
    IF s = <<>> THEN <<>>
    ELSE IF Head(s) = " " THEN RemoveSpaces(Tail(s))
    ELSE <<Head(s)>> \o RemoveSpaces(Tail(s))

\* s.strip(), as int() and float() apply it to their argument
RECURSIVE LStrip(_)
LStrip(s) == IF s # <<>> /\ IsSpace(Head(s)) THEN LStrip(Tail(s)) ELSE s

RECURSIVE RStrip(_)
RStrip(s) ==
    IF s # <<>> /\ IsSpace(s[Len(s)]) THEN RStrip(SubSeq(s, 1, Len(s) - 1)) ELSE s

Strip(s) == RStrip(LStrip(s))

AllDigits(s) == \A k \in 1..Len(s) : IsDigit(s[k])

\* value of a sequence of digits
RECURSIVE DigitsVal(_)
DigitsVal(s) ==
    IF s = <<>> THEN 0
    ELSE 10 * DigitsVal(SubSeq(s, 1, Len(s) - 1)) + DigitVal(s[Len(s)])

\* body of a numeral without its sign
Unsigned(s) == IF s # <<>> /\ Head(s) \in {"-", "+"} THEN Tail(s) ELSE s

Sign(s) == IF s # <<>> /\ Head(s) = "-" THEN -1 ELSE 1

\* int(s) succeeds: optional sign and at least one digit, whitespace stripped
IsInt(s) ==
    LET u == Unsigned(Strip(s)) IN u # <<>> /\ AllDigits(u)

\* int(s)
IntOf(s) == Sign(Strip(s)) * DigitsVal(Unsigned(Strip(s)))

RECURSIVE Pow10(_)
Pow10(e) == IF e = 0 THEN 1 ELSE 10 * Pow10(e - 1)

\* a decimal with the trailing zeros of its fraction removed
RECURSIVE Norm(_)
Norm(f) ==
    IF f.e > 0 /\ f.m % 10 = 0 THEN Norm([m |-> f.m \div 10, e |-> f.e - 1]) ELSE f

\* float(n) for an integer n
FloatOfInt(n) == [m |-> n, e |-> 0]

Zero == FloatOfInt(0)

\* float(s) succeeds: sign, digits, at most one period, at least one digit
IsFloat(s) ==
    LET u == Unsigned(Strip(s))
        k == Find(u, ".")
    IN  IF k = -1 THEN u # <<>> /\ AllDigits(u)
        ELSE /\ AllDigits(Slice(u, 0, k))
             /\ AllDigits(SliceFrom(u, k + 1))
             /\ Len(u) > 1

\* float(s)
FloatOf(s) ==
    LET u == Unsigned(Strip(s))
        k == Find(u, ".")
        ip == IF k = -1 THEN u ELSE Slice(u, 0, k)
        fp == IF k = -1 THEN <<>> ELSE SliceFrom(u, k + 1)
    IN  Norm([m |-> Sign(Strip(s)) * (DigitsVal(ip) * Pow10(Len(fp)) + DigitsVal(fp)),
              e |-> Len(fp)])

(***************************************************************************)
(* replace_missing and the record of one trial                             *)
(***************************************************************************)

\* outcome of a call that may raise: ok = FALSE stands for the exception
Raise == [ok |-> FALSE, v |-> Zero]

Value(v) == [ok |-> TRUE, v |-> v]

\* replace_missing that compares the field as it is, spaces and all
replace_missing_exact(value, missing) ==
    IF value = <<".">> THEN Value(missing)
    ELSE IF IsFloat(value) THEN Value(FloatOf(value))
    ELSE Raise

\* replace_missing(value, missing): the missing code for a lone period,
\* float(value) otherwise (which raises ValueError on unparseable text)
replace_missing(value, missing) ==
    IF RemoveSpaces(value) = <<".">> THEN Value(missing)
    ELSE IF IsFloat(value) THEN Value(FloatOf(value))
    ELSE Raise

\* stop=None
None == <<"None">>

\* the events dict of a trial with nothing in it
EmptyEvents ==
    [Sfix |-> <<>>, Ssac |-> <<>>, Sblk |-> <<>>, Efix |-> <<>>, Esac |-> <<>>,
     Eblk |-> <<>>, msg |-> <<>>]

\* the accumulation buffers as they are at the start and after every trial end
EmptyBufs ==
    [x |-> <<>>, y |-> <<>>, size |-> <<>>, time |-> <<>>, trackertime |-> <<>>,
     events |-> EmptyEvents]

\* the trial dict built from the buffers when a trial ends
Trial(b) ==
    [x |-> b.x, y |-> b.y, size |-> b.size, time |-> b.time,
     trackertime |-> b.trackertime, events |-> b.events]

\* a Python value appended to a start-event slot, with its shape: the bare
\* integer n
PyInt(n) == [shape |-> "int", v |-> n]

\* the one-element list [n]
PyList(n) == [shape |-> "list", v |-> <<n>>]

\* events[key].append(entry)
AddEvent(b, key, entry) ==
    [b EXCEPT !.events = [@ EXCEPT ![key] = Append(@, entry)]]

(***************************************************************************)
(* Trial boundaries                                                        *)
(***************************************************************************)

\* TrialEnds with the start test made under both policies
TrialEndsOnStartToo(line, start, stop, finalline) ==
    \/ Contains(start, line)
    \/ IF stop # None THEN Contains(stop, line) ELSE line = finalline

\* whether a line read inside a trial ends the trial (sets trialend)
TrialEnds(line, start, stop, finalline) ==
    IF stop # None THEN Contains(stop, line)
    ELSE Contains(start, line) \/ line = finalline

\* StartedAfter that leaves started set on a stop line
StartedAfterKept(line, start, stop, finalline) == TRUE

\* the value of started after the boundary test of a line read inside a trial
StartedAfter(line, start, stop, finalline) ==
    IF stop # None THEN ~Contains(stop, line) ELSE TRUE

\* AppendTrial that puts the trial first: data.insert(0, trial)
AppendTrialFirst(d, b) == <<Trial(b)>> \o d

\* data.append(trial), the trial built from the buffers b
AppendTrial(d, b) == Append(d, Trial(b))

\* BufsAfterBoundary without the reset of the buffers
BufsKept(ends, b) == b

\* BufsAfterBoundary that resets the events and leaves the sample lists
BufsSamplesKept(ends, b) == IF ends THEN [b EXCEPT !.events = EmptyEvents] ELSE b

\* the buffers after the trial-ending block: reset when the trial ended
BufsAfterBoundary(ends, b) == IF ends THEN EmptyBufs ELSE b

\* the text whose integer value becomes starttime when a line opens a trial
StartField(line) == Slice(line, Find(line, "\t") + 1, Find(line, " "))

(***************************************************************************)
(* Line classification: the outcome is "ok" (line consumed), "skip" (the   *)
(* continue of the sample branch) or "fail" (an exception leaves the       *)
(* function); b holds the buffers as the line leaves them.                 *)
(***************************************************************************)

Outcome(status, b) == [status |-> status, b |-> b]

\* ParseMsg that passes over a timestamp it cannot parse
ParseMsgSkip(line, b) ==
    LET ms == Find(line, " ")
        t == Slice(line, 4, ms)
        m == SliceFrom(line, ms + 1)
    IN  IF IsInt(t) THEN Outcome("ok", AddEvent(b, "msg", <<IntOf(t), m>>))
        ELSE Outcome("skip", b)

\* "MSG" lines: [time, message] appended to events['msg']
ParseMsg(line, b) ==
    LET ms == Find(line, " ")
        t == Slice(line, 4, ms)
        m == SliceFrom(line, ms + 1)
    IN  IF IsInt(t) THEN Outcome("ok", AddEvent(b, "msg", <<IntOf(t), m>>))
        ELSE Outcome("fail", b)

\* "SFIX L", "SSACC L", "SBLINK" lines: int(line[9:]) appended to the slot
ParseStartEvent(line, b, key) ==
    LET l == SliceFrom(line, 9)
    IN  IF IsInt(l) THEN Outcome("ok", AddEvent(b, key, PyInt(IntOf(l))))
        ELSE Outcome("fail", b)

\* the first n tab fields of l are integers
IntFields(l, n) == Len(l) >= n /\ \A k \in 1..n : IsInt(l[k])

\* fields from..to of l all pass replace_missing
CoordFields(l, from, to, missing) ==
    Len(l) >= to /\ \A k \in from..to : replace_missing(l[k], missing).ok

\* "EFIX L" lines: [st, et, dur, sx, sy]
ParseEfix(line, b, missing) ==
    LET l == Split(SliceFrom(line, 9), "\t")
    IN  IF IntFields(l, 3) /\ CoordFields(l, 4, 5, missing)
        THEN Outcome("ok", AddEvent(b, "Efix",
                 <<IntOf(l[1]), IntOf(l[2]), IntOf(l[3]),
                   replace_missing(l[4], missing).v, replace_missing(l[5], missing).v>>))
        ELSE Outcome("fail", b)

\* "ESACC L" lines: [st, et, dur, sx, sy, ex, ey]
ParseEsac(line, b, missing) ==
    LET l == Split(SliceFrom(line, 9), "\t")
    IN  IF IntFields(l, 3) /\ CoordFields(l, 4, 7, missing)
        THEN Outcome("ok", AddEvent(b, "Esac",
                 <<IntOf(l[1]), IntOf(l[2]), IntOf(l[3]),
                   replace_missing(l[4], missing).v, replace_missing(l[5], missing).v,
                   replace_missing(l[6], missing).v, replace_missing(l[7], missing).v>>))
        ELSE Outcome("fail", b)

\* "EBLINK" lines: [st, et, dur]
ParseEblk(line, b) ==
    LET l == Split(SliceFrom(line, 9), "\t")
    IN  IF IntFields(l, 3)
        THEN Outcome("ok", AddEvent(b, "Eblk", <<IntOf(l[1]), IntOf(l[2]), IntOf(l[3])>>))
        ELSE Outcome("fail", b)

\* ParseSample with the appends inside the try: a bad y field is swallowed
\* after x was appended
ParseSampleSwallow(line, b, starttime) ==
    LET l == Split(line, "\t")
    IN  IF ~IsInt(l[1]) THEN Outcome("skip", b)
        ELSE IF ~(Len(l) >= 4 /\ IsFloat(l[4])) THEN Outcome("fail", b)
        ELSE IF ~IsFloat(l[2]) THEN Outcome("fail", b)
        ELSE IF ~IsFloat(l[3]) THEN Outcome("skip", [b EXCEPT !.x = Append(@, FloatOf(l[2]))])
        ELSE Outcome("ok",
                 [b EXCEPT !.x = Append(@, FloatOf(l[2])),
                           !.y = Append(@, FloatOf(l[3])),
                           !.size = Append(@, FloatOf(l[4])),
                           !.time = Append(@, IntOf(l[1]) - starttime),
                           !.trackertime = Append(@, IntOf(l[1]))])

\* ParseSample without the try: a first field that is no integer raises
ParseSampleNoTry(line, b, starttime) ==
    LET l == Split(line, "\t")
    IN  IF ~IsInt(l[1]) \/ ~(Len(l) >= 4 /\ IsFloat(l[2]) /\ IsFloat(l[3]) /\ IsFloat(l[4]))
        THEN Outcome("fail", b)
        ELSE Outcome("ok",
                 [b EXCEPT !.x = Append(@, FloatOf(l[2])),
                           !.y = Append(@, FloatOf(l[3])),
                           !.size = Append(@, FloatOf(l[4])),
                           !.time = Append(@, IntOf(l[1]) - starttime),
                           !.trackertime = Append(@, IntOf(l[1]))])

\* ParseSample without the test for pupil size zero
ParseSampleNoZero(line, b, starttime) ==
    LET l == Split(line, "\t")
    IN  IF ~IsInt(l[1]) THEN Outcome("skip", b)
        ELSE IF ~(Len(l) >= 4 /\ IsFloat(l[2]) /\ IsFloat(l[3]) /\ IsFloat(l[4]))
        THEN Outcome("fail", b)
        ELSE Outcome("ok",
                 [b EXCEPT !.x = Append(@, FloatOf(l[2])),
                           !.y = Append(@, FloatOf(l[3])),
                           !.size = Append(@, FloatOf(l[4])),
                           !.time = Append(@, IntOf(l[1]) - starttime),
                           !.trackertime = Append(@, IntOf(l[1]))])

\* any other line: skipped unless its first tab field is an integer, else a
\* sample; the appends run in the order x, y, size, time, trackertime and an
\* exception leaves the buffers as the appends before it made them
ParseSample(line, b, starttime) ==
    LET l == Split(line, "\t")
    IN  IF ~IsInt(l[1]) THEN Outcome("skip", b)
        ELSE IF ~(Len(l) >= 4 /\ IsFloat(l[4])) THEN Outcome("fail", b)
        ELSE
          LET isMissing == FloatOf(l[4]) = Zero
              xOk == isMissing \/ IsFloat(l[2])
              yOk == isMissing \/ IsFloat(l[3])
              xv == IF isMissing THEN Zero ELSE FloatOf(l[2])
              yv == IF isMissing THEN Zero ELSE FloatOf(l[3])
              b1 == [b EXCEPT !.x = Append(@, xv)]
              b2 == [b1 EXCEPT !.y = Append(@, yv)]
              b5 == [b2 EXCEPT !.size = Append(@, FloatOf(l[4])),
                               !.time = Append(@, IntOf(l[1]) - starttime),
                               !.trackertime = Append(@, IntOf(l[1]))]
          IN  IF ~xOk THEN Outcome("fail", b)
              ELSE IF ~yOk THEN Outcome("fail", b1)
              ELSE Outcome("ok", b5)

\* the tags, as the prefixes the code compares
TagMSG == <<"M", "S", "G">>

TagSFIX == <<"S", "F", "I", "X", " ", "L">>

TagEFIX == <<"E", "F", "I", "X", " ", "L">>

TagSSACC == <<"S", "S", "A", "C", "C", " ", "L">>

TagESACC == <<"E", "S", "A", "C", "C", " ", "L">>

TagSBLINK == <<"S", "B", "L", "I", "N", "K">>

TagEBLINK == <<"E", "B", "L", "I", "N", "K">>

\* ParseLine with the time of a message made relative to the trial start
ParseLineRelative(line, b, starttime, missing) ==
    IF Slice(line, 0, 3) = TagMSG
    THEN LET ms == Find(line, " ")
             t == Slice(line, 4, ms)
         IN  IF IsInt(t)
             THEN Outcome("ok",
                      AddEvent(b, "msg", <<IntOf(t) - starttime, SliceFrom(line, ms + 1)>>))
             ELSE Outcome("fail", b)
    ELSE IF Slice(line, 0, 6) = TagSFIX THEN ParseStartEvent(line, b, "Sfix")
    ELSE IF Slice(line, 0, 6) = TagEFIX THEN ParseEfix(line, b, missing)
    ELSE IF Slice(line, 0, 7) = TagSSACC THEN ParseStartEvent(line, b, "Ssac")
    ELSE IF Slice(line, 0, 7) = TagESACC THEN ParseEsac(line, b, missing)
    ELSE IF Slice(line, 0, 6) = TagSBLINK THEN ParseStartEvent(line, b, "Sblk")
    ELSE IF Slice(line, 0, 6) = TagEBLINK THEN ParseEblk(line, b)
    ELSE ParseSample(line, b, starttime)

\* ParseLine that gives a sample with pupil size zero the missing value for
\* x and y
ParseLineMissingPupil(line, b, starttime, missing) ==
    IF Slice(line, 0, 3) = TagMSG THEN ParseMsg(line, b)
    ELSE IF Slice(line, 0, 6) = TagSFIX THEN ParseStartEvent(line, b, "Sfix")
    ELSE IF Slice(line, 0, 6) = TagEFIX THEN ParseEfix(line, b, missing)
    ELSE IF Slice(line, 0, 7) = TagSSACC THEN ParseStartEvent(line, b, "Ssac")
    ELSE IF Slice(line, 0, 7) = TagESACC THEN ParseEsac(line, b, missing)
    ELSE IF Slice(line, 0, 6) = TagSBLINK THEN ParseStartEvent(line, b, "Sblk")
    ELSE IF Slice(line, 0, 6) = TagEBLINK THEN ParseEblk(line, b)
    ELSE LET o == ParseSample(line, b, starttime)
         IN  IF o.status = "ok" /\ o.b.size[Len(o.b.size)] = Zero
             THEN Outcome("ok", [o.b EXCEPT !.x = Append(b.x, missing),
                                            !.y = Append(b.y, missing)])
             ELSE o

\* the if/elif chain that classifies a line read while started
ParseLine(line, b, starttime, missing) ==
    IF Slice(line, 0, 3) = TagMSG THEN ParseMsg(line, b)
    ELSE IF Slice(line, 0, 6) = TagSFIX THEN ParseStartEvent(line, b, "Sfix")
    ELSE IF Slice(line, 0, 6) = TagEFIX THEN ParseEfix(line, b, missing)
    ELSE IF Slice(line, 0, 7) = TagSSACC THEN ParseStartEvent(line, b, "Ssac")
    ELSE IF Slice(line, 0, 7) = TagESACC THEN ParseEsac(line, b, missing)
    ELSE IF Slice(line, 0, 6) = TagSBLINK THEN ParseStartEvent(line, b, "Sblk")
    ELSE IF Slice(line, 0, 6) = TagEBLINK THEN ParseEblk(line, b)
    ELSE ParseSample(line, b, starttime)

(***************************************************************************)
(* State of one call of read_edf                                           *)
(***************************************************************************)

VARIABLES
    raw,          \* the lines of the file (f.readlines())
    start,        \* argument start
    stop,         \* argument stop, None when not given
    missing,      \* argument missing
    pc,           \* "init", "loop", "done" (returned) or "failed" (raised)
    idx,          \* position of the for loop: the next line is raw[idx]
    finalline,    \* raw[-1]
    data, x, y, size, time, trackertime, events, starttime, started,
    ret,          \* the returned list, <<>> until the call returns
    opener,       \* history: index of the line on which the trial now open began, 0 when none
    hist,         \* history: for each trial of data, the lines that opened and closed it
    log           \* history: the earlier calls, each with its arguments and its outcome

vars ==
    <<raw, start, stop, missing, pc, idx, finalline, data, x, y, size, time,
      trackertime, events, starttime, started, ret, opener, hist, log>>

\* the accumulation buffers, as one record
Bufs ==
    [x |-> x, y |-> y, size |-> size, time |-> time, trackertime |-> trackertime,
     events |-> events]

\* longest input, in lines
MaxLen == 4

StartMarker == <<"T", "S">>

StopMarker == <<"T", "E">>

\* "MSG\t10 TS\n"
LStartA == <<"M", "S", "G", "\t", "1", "0", " ", "T", "S", "\n">>

\* "MSG\t20 TS\n"
LStartB == <<"M", "S", "G", "\t", "2", "0", " ", "T", "S", "\n">>

\* "MSG\t30 TE\n"
LStop == <<"M", "S", "G", "\t", "3", "0", " ", "T", "E", "\n">>

\* "25\t1.5\t2.5\t3.0\n"
LSample ==
    <<"2", "5", "\t", "1", ".", "5", "\t", "2", ".", "5", "\t", "3", ".", "0", "\n">>

\* "26\t1.5\tx\t3.0\n": a sample whose y field is no number
LSampleBadY ==
    <<"2", "6", "\t", "1", ".", "5", "\t", "x", "\t", "3", ".", "0", "\n">>

\* "SFIX L   12\n"
LSfix == <<"S", "F", "I", "X", " ", "L", " ", " ", " ", "1", "2", "\n">>

\* "**\n": no tag, first field no integer
LJunk == <<"*", "*", "\n">>

Lines == {LStartA, LStartB, LStop, LSample, LSampleBadY, LSfix, LJunk}

\* all sequences over S of length at most n
SeqsUpTo(S, n) == UNION {[1..k -> S] : k \in 0..n}

\* the state at entry of read_edf, the file already read
InitOn(raws, stops, missings) ==
    /\ raw \in raws
    /\ start = StartMarker
    /\ stop \in stops
    /\ missing \in missings
    /\ pc = "init"
    /\ idx = 1
    /\ finalline = <<>>
    /\ data = <<>>
    /\ x = <<>> /\ y = <<>> /\ size = <<>> /\ time = <<>> /\ trackertime = <<>>
    /\ events = EmptyEvents
    /\ starttime = 0
    /\ started = FALSE
    /\ ret = <<>>
    /\ opener = 0
    /\ hist = <<>>
    /\ log = <<>>

\* the calls on every file of at most MaxLen lines
InitWith(lines, stops, missings) == InitOn(SeqsUpTo(lines, MaxLen), stops, missings)

Init == InitWith(Lines, {None, StopMarker}, {Zero})

\* finalline = raw[-1], which raises IndexError on a file without lines
Setup ==
    /\ pc = "init"
    /\ IF raw = <<>>
       THEN pc' = "failed" /\ UNCHANGED finalline
       ELSE pc' = "loop" /\ finalline' = raw[Len(raw)]
    /\ UNCHANGED <<raw, start, stop, missing, idx, data, x, y, size, time,
                   trackertime, events, starttime, started, ret, opener, hist, log>>

\* Opens without the test for the start marker
OpensAlways(line, isStarted) == ~isStarted

\* a line read while not started opens a trial
Opens(line, isStarted) == ~isStarted /\ Contains(start, line)

\* starttime after the first half of the loop body
StarttimeAfter(line, isStarted, old) ==
    IF Opens(line, isStarted) /\ IsInt(StartField(line)) THEN IntOf(StartField(line))
    ELSE old

\* one iteration of the for loop
Step ==
    /\ pc = "loop"
    /\ idx <= Len(raw)
    /\ LET line == raw[idx]
           ends == started /\ TrialEnds(line, start, stop, finalline)
           opens == Opens(line, started)
           badStart == opens /\ ~IsInt(StartField(line))
           started1 ==
               IF started THEN StartedAfter(line, start, stop, finalline) ELSE opens
           starttime1 == StarttimeAfter(line, started, starttime)
           b0 == BufsAfterBoundary(ends, Bufs)
           out ==
               IF started1 /\ ~badStart THEN ParseLine(line, b0, starttime1, missing)
               ELSE Outcome("ok", b0)
           raised == badStart \/ out.status = "fail"
       IN  /\ data' = IF ends THEN AppendTrial(data, Bufs) ELSE data
           /\ hist' = IF ends THEN Append(hist, [open |-> opener, close |-> idx]) ELSE hist
           /\ opener' = IF opens \/ (ends /\ started1) THEN idx
                        ELSE IF ends THEN 0 ELSE opener
           /\ started' = started1
           /\ starttime' = starttime1
           /\ x' = out.b.x
           /\ y' = out.b.y
           /\ size' = out.b.size
           /\ time' = out.b.time
           /\ trackertime' = out.b.trackertime
           /\ events' = out.b.events
           /\ pc' = IF raised THEN "failed" ELSE "loop"
           /\ idx' = IF raised THEN idx ELSE idx + 1
    /\ UNCHANGED <<raw, start, stop, missing, finalline, ret, log>>

\* return data
Return ==
    /\ pc = "loop"
    /\ idx > Len(raw)
    /\ pc' = "done"
    /\ ret' = data
    /\ UNCHANGED <<raw, start, stop, missing, idx, finalline, data, x, y, size, time,
                   trackertime, events, starttime, started, opener, hist, log>>

Next == Setup \/ Step \/ Return

Spec == Init /\ [][Next]_vars

\* "MSG\t40 TS TE\n": a line holding both markers, as every stop line does
\* when the stop marker extends the start marker ("TRIALNR", "TRIALNR END")
LBoth == <<"M", "S", "G", "\t", "4", "0", " ", "T", "S", " ", "T", "E", "\n">>

LinesStop == {LStartA, LBoth, LStop, LSample, LSfix, LJunk}

\* calls that give a stop marker
InitStop == InitWith(LinesStop, {StopMarker}, {Zero})

SpecStop == InitStop /\ [][Next]_vars

(***************************************************************************)
(* Event lines and samples with pupil size zero, read inside a trial       *)
(***************************************************************************)

\* "EFIX L   100\t200\t100\t.\t300.5\n"
LEfix ==
    <<"E", "F", "I", "X", " ", "L", " ", " ", " ", "1", "0", "0", "\t", "2",
      "0", "0", "\t", "1", "0", "0", "\t", ".", "\t", "3", "0", "0", ".", "5",
      "\n">>

\* "ESACC L  14\t16\t2\t1.0\t .\t2\t3.5\n"
LEsac ==
    <<"E", "S", "A", "C", "C", " ", "L", " ", " ", "1", "4", "\t", "1", "6",
      "\t", "2", "\t", "1", ".", "0", "\t", " ", ".", "\t", "2", "\t", "3",
      ".", "5", "\n">>

\* "SSACC L  14\n"
LSsac ==
    <<"S", "S", "A", "C", "C", " ", "L", " ", " ", "1", "4", "\n">>

\* "SBLINK L 17\n"
LSblk ==
    <<"S", "B", "L", "I", "N", "K", " ", "L", " ", "1", "7", "\n">>

\* "EBLINK L 17\t19\t2\n"
LEblk ==
    <<"E", "B", "L", "I", "N", "K", " ", "L", " ", "1", "7", "\t", "1", "9",
      "\t", "2", "\n">>

\* "MSG\tx y\n": the timestamp is no integer
LMsgBad ==
    <<"M", "S", "G", "\t", "x", " ", "y", "\n">>

\* "MSG\tx TE\n": no integer timestamp, and the stop marker
LMsgBadStop ==
    <<"M", "S", "G", "\t", "x", " ", "T", "E", "\n">>

\* "SFIX L   x\n"
LSfixBad ==
    <<"S", "F", "I", "X", " ", "L", " ", " ", " ", "x", "\n">>

\* "EFIX L   11\t13\t2\tx\t1\n": a coordinate that is no number
LEfixBad ==
    <<"E", "F", "I", "X", " ", "L", " ", " ", " ", "1", "1", "\t", "1", "3",
      "\t", "2", "\t", "x", "\t", "1", "\n">>

\* "SSACC L  \n": no timestamp
LSsacBad ==
    <<"S", "S", "A", "C", "C", " ", "L", " ", " ", "\n">>

\* "ESACC L  14\tx\t2\t1\t1\t2\t2\n": the end time is no integer
LEsacBad ==
    <<"E", "S", "A", "C", "C", " ", "L", " ", " ", "1", "4", "\t", "x", "\t",
      "2", "\t", "1", "\t", "1", "\t", "2", "\t", "2", "\n">>

\* "SBLINK L 1.5\n"
LSblkBad ==
    <<"S", "B", "L", "I", "N", "K", " ", "L", " ", "1", ".", "5", "\n">>

\* "EBLINK L 17\t19\n": no duration field
LEblkBad ==
    <<"E", "B", "L", "I", "N", "K", " ", "L", " ", "1", "7", "\t", "1", "9",
      "\n">>

\* "27\t.\tx\t0.0\n": pupil size zero, x a lone period, y no number
LZeroDot ==
    <<"2", "7", "\t", ".", "\t", "x", "\t", "0", ".", "0", "\n">>

\* "28\t1.5\t2.5\t0\n": pupil size zero, x and y numbers
LZeroNum ==
    <<"2", "8", "\t", "1", ".", "5", "\t", "2", ".", "5", "\t", "0", "\n">>

GoodEventLines == {LSfix, LEfix, LSsac, LEsac, LSblk, LEblk}

BadEventLines ==
    {LMsgBad, LMsgBadStop, LSfixBad, LEfixBad, LSsacBad, LEsacBad, LSblkBad, LEblkBad}

LinesEv ==
    {LStartA, LStop, LSample, LZeroDot, LZeroNum} \cup GoodEventLines \cup BadEventLines

\* missing=-1.0
MinusOne == FloatOfInt(-1)

\* files that begin with a start line, the lines of LinesEv after it
InitEv ==
    InitOn({<<LStartA>> \o body : body \in SeqsUpTo(LinesEv, MaxLen - 2)},
           {None, StopMarker}, {Zero, MinusOne})

SpecEv == InitEv /\ [][Next]_vars

\* lines for files that need not begin with a start line: samples, junk and
\* event lines with fields that do not parse
LinesIdle ==
    {LStartA, LStop, LSample, LSampleBadY, LZeroDot, LJunk, LMsgBad, LSfixBad, LEfixBad}

\* calls on the files of fewer than MaxLen lines of LinesIdle
InitIdle == InitOn(SeqsUpTo(LinesIdle, MaxLen - 1), {None, StopMarker}, {Zero})

SpecIdle == InitIdle /\ [][Next]_vars

(***************************************************************************)
(* Several calls of read_edf, one after the other                          *)
(***************************************************************************)

\* number of calls in a row
MaxCalls == 3

\* one trial with a fixation whose x is a lone period and a zero-pupil sample
RawFix == <<LStartA, LEfix, LZeroDot, LStop>>

\* a saccade with a missing coordinate, and a second start line
RawSac == <<LStartA, LEsac, LStartB, LSample>>

\* a file on which the call raises
RawBad == <<LStartA, LSfixBad>>

CallRaws == {RawFix, RawSac, RawBad}

InitCalls == InitOn(CallRaws, {None, StopMarker}, {Zero, MinusOne})

\* the call that ended, as the log keeps it: its arguments and its outcome
Ended ==
    [raw |-> raw, stop |-> stop, missing |-> missing, pc |-> pc, ret |-> ret]

\* Call with data as a list that outlives the call
CallKeepsData ==
    /\ pc \in {"done", "failed"}
    /\ Len(log) + 1 < MaxCalls
    /\ log' = Append(log, Ended)
    /\ raw' \in CallRaws
    /\ stop' \in {None, StopMarker}
    /\ missing' \in {Zero, MinusOne}
    /\ pc' = "init"
    /\ idx' = 1
    /\ finalline' = <<>>
    /\ x' = <<>> /\ y' = <<>> /\ size' = <<>> /\ time' = <<>> /\ trackertime' = <<>>
    /\ events' = EmptyEvents
    /\ starttime' = 0
    /\ started' = FALSE
    /\ ret' = <<>>
    /\ opener' = 0
    /\ hist' = <<>>
    /\ UNCHANGED <<start, data>>

\* the next call of read_edf, after the one before returned or raised: every
\* variable of the function is a local, bound anew at the top of the call
Call ==
    /\ pc \in {"done", "failed"}
    /\ Len(log) + 1 < MaxCalls
    /\ log' = Append(log, Ended)
    /\ raw' \in CallRaws
    /\ stop' \in {None, StopMarker}
    /\ missing' \in {Zero, MinusOne}
    /\ pc' = "init"
    /\ idx' = 1
    /\ finalline' = <<>>
    /\ data' = <<>>
    /\ x' = <<>> /\ y' = <<>> /\ size' = <<>> /\ time' = <<>> /\ trackertime' = <<>>
    /\ events' = EmptyEvents
    /\ starttime' = 0
    /\ started' = FALSE
    /\ ret' = <<>>
    /\ opener' = 0
    /\ hist' = <<>>
    /\ UNCHANGED start

NextCalls == Setup \/ Step \/ Return \/ Call

SpecCalls == InitCalls /\ [][NextCalls]_vars

(***************************************************************************)
(* Properties of the returned Document                                     *)
(***************************************************************************)

\* the five sample sequences of a trial have one length
Aligned(T) ==
    /\ Len(T.x) = Len(T.y)
    /\ Len(T.y) = Len(T.size)
    /\ Len(T.size) = Len(T.time)
    /\ Len(T.time) = Len(T.trackertime)

\* C1: under either boundary policy, every trial of the Document read_edf
\* returns has x, y, size, time and trackertime of the same length.
C1_SampleSequencesAligned ==
    pc = "done" => \A k \in 1..Len(ret) : Aligned(ret[k])

\* a returned Document of two trials, the first holding a sample
C1_Witness ==
    /\ pc = "done"
    /\ Len(ret) = 2
    /\ Len(ret[1].x) = 1

\* the lines of the input that contain the start marker
StartLines == {k \in 1..Len(raw) : Contains(start, raw[k])}

\* the integer timestamp written on the line that opened trial k of data
StartTimestamp(k) == IntOf(StartField(raw[hist[k].open]))

\* C2: in the returned Document every entry of time is the entry of
\* trackertime minus the timestamp on the start-marker line that opened the
\* very trial, also for a trial opened by the line that closed the one before.
C2_TimeRelativeToOwnStart ==
    pc = "done" =>
        \A k \in 1..Len(ret) :
            (hist[k].open \in StartLines /\ IsInt(StartField(raw[hist[k].open]))) =>
                \A i \in 1..Len(ret[k].time) :
                    ret[k].time[i] = ret[k].trackertime[i] - StartTimestamp(k)

\* C3: after a successful parse no trial opened by a start-marker line is
\* left open and missing from the Document.
C3_OpenTrialFlushed ==
    pc = "done" => ~(started /\ opener \in StartLines)

\* the line is consumed as a sample when read inside a trial
IsSampleLine(line) ==
    LET out == ParseLine(line, EmptyBufs, 0, missing)
    IN  out.status = "ok" /\ Len(out.b.x) = 1

\* the sample lines among raw[lo..hi]
SamplesIn(lo, hi) == {k \in lo..hi : IsSampleLine(raw[k])}

\* C4: with no stop marker, k start-marker lines yield k trials; with two
\* start-marker lines and only sample lines besides, the first trial holds the
\* samples between the markers and the second those after the second marker.
C4_OneTrialPerStartLine ==
    (stop = None /\ pc = "done") =>
        /\ Len(ret) = Cardinality(StartLines)
        /\ \A q \in 2..Len(raw) :
              (StartLines = {1, q} /\ SamplesIn(1, Len(raw)) = (1..Len(raw)) \ {1, q}) =>
                  /\ Len(ret[1].x) = q - 2
                  /\ Len(ret[2].x) = Len(raw) - q

\* the msg entry a MSG line stands for
MsgEntry(line) ==
    <<IntOf(Slice(line, 4, Find(line, " "))), SliceFrom(line, Find(line, " ") + 1)>>

\* C5: with no stop marker, a final MSG line reached inside an open trial has
\* its entry in msg of the last trial of the Document, the trial it closes.
C5_FinalLineInClosedTrial ==
    (/\ stop = None
     /\ pc = "done"
     /\ Len(ret) > 0
     /\ hist[Len(ret)].close = Len(raw)
     /\ Slice(finalline, 0, 3) = TagMSG) =>
        \E j \in 1..Len(ret[Len(ret)].events.msg) :
            ret[Len(ret)].events.msg[j] = MsgEntry(finalline)

(***************************************************************************)
(* Properties of single loop iterations                                    *)
(***************************************************************************)

\* the for loop is about to read raw[idx]
InLoop == pc = "loop" /\ idx <= Len(raw)

\* the line opens a trial: from Idle, or as the boundary when no stop is given
OpensTrial(line) == Contains(start, line) /\ (~started \/ stop = None)

C7_ClosedOnlyByStartOrLastLine ==
    stop = None =>
        \A k \in 1..Len(hist) : hist[k].close \in StartLines \/ hist[k].close = Len(raw)

\* C8: an input none of whose lines contains the start marker, the empty
\* input included, does not fail and returns the empty Document.
C8_NoStartGivesEmptyDocument ==
    StartLines = {} => (pc # "failed" /\ (pc = "done" => ret = <<>>))

\* C9 as stated: with a stop marker, a stop line read inside a trial closes it
\* and leaves the parser Idle; a start line read inside a trial neither closes
\* it nor opens another; a trial opens only on a start line read while Idle.
C9_StopClosesStartIgnored ==
    [][(InLoop /\ stop # None) =>
           /\ (started /\ Contains(stop, raw[idx])) =>
                  (data' = Append(data, Trial(Bufs)) /\ ~started')
           /\ (started /\ Contains(start, raw[idx])) =>
                  (data' = data /\ started' /\ opener' = opener /\ starttime' = starttime)
           /\ (~started /\ started') => Contains(start, raw[idx])]_vars

\* C9 amended: the start line read inside a trial is one that does not hold
\* the stop marker as well.
C9_StopClosesPlainStartIgnored ==
    [][(InLoop /\ stop # None) =>
           /\ (started /\ Contains(stop, raw[idx])) =>
                  (data' = Append(data, Trial(Bufs)) /\ ~started')
           /\ (started /\ Contains(start, raw[idx]) /\ ~Contains(stop, raw[idx])) =>
                  (data' = data /\ started' /\ opener' = opener /\ starttime' = starttime)
           /\ (~started /\ started') => Contains(start, raw[idx])]_vars

\* a plain start line was read inside a trial, and a stop line then closed it
C9_Witness ==
    /\ stop # None
    /\ pc = "loop"
    /\ idx = 4
    /\ Contains(start, raw[2]) /\ ~Contains(stop, raw[2])
    /\ Contains(stop, raw[3])
    /\ hist = <<[open |-> 1, close |-> 3]>>
    /\ ~started

\* no recognised tag, and the first tab field is no integer
IsJunk(line) ==
    /\ Slice(line, 0, 3) # TagMSG
    /\ Slice(line, 0, 6) \notin {TagSFIX, TagEFIX, TagSBLINK, TagEBLINK}
    /\ Slice(line, 0, 7) \notin {TagSSACC, TagESACC}
    /\ ~IsInt(Split(line, "\t")[1])

\* the line leaves everything but the loop position as it was
NoEffect ==
    /\ UNCHANGED <<x, y, size, time, trackertime, events, starttime, started, data>>
    /\ pc' = "loop"
    /\ idx' = idx + 1

\* C10 as stated: inside an open trial a line with no recognised tag whose
\* first tab field is no integer changes nothing, and the parse goes on.
C10_JunkLineNoEffect ==
    [][(InLoop /\ started /\ IsJunk(raw[idx])) => NoEffect]_vars

\* the line is no trial boundary under the policy in force
NotBoundary(line) ==
    IF stop # None THEN ~Contains(stop, line)
    ELSE ~Contains(start, line) /\ line # raw[Len(raw)]

\* C10 amended: the same, for a line that does not end the trial (it holds no
\* stop marker when one is given; otherwise it holds no start marker and its
\* text differs from that of the final line).
C10_JunkLineInsideTrialNoEffect ==
    [][(InLoop /\ started /\ IsJunk(raw[idx]) /\ NotBoundary(raw[idx])) => NoEffect]_vars

\* a junk line was read inside a trial that holds a sample, and went by
C10_Witness ==
    /\ pc = "loop"
    /\ idx > 2
    /\ started
    /\ opener # 0 /\ opener < idx - 1
    /\ IsJunk(raw[idx - 1])
    /\ NotBoundary(raw[idx - 1])
    /\ Len(x) >= 1

(***************************************************************************)
(* Event lines                                                             *)
(***************************************************************************)

\* C11 as stated: inside an open trial a recognised event line whose integer
\* or numeric field cannot be parsed makes read_edf fail, and a failed call
\* returns nothing: it takes no further step and no Document exists.
C11_BadEventLineAborts ==
    [][/\ pc # "failed"
       /\ (InLoop /\ started /\ raw[idx] \in BadEventLines) =>
              (pc' = "failed" /\ ret' = <<>>)]_vars

\* C11 amended: the same, for a line that is classified, that is, one that
\* does not hold the stop marker when a stop marker is configured.
C11_ClassifiedBadEventLineAborts ==
    [][/\ pc # "failed"
       /\ (/\ InLoop
           /\ started
           /\ raw[idx] \in BadEventLines
           /\ (stop # None => ~Contains(stop, raw[idx]))) =>
              (pc' = "failed" /\ ret' = <<>>)]_vars

\* the call failed on a bad event line after a trial had been closed
C11_Witness ==
    /\ pc = "failed"
    /\ idx > 1
    /\ raw[idx] \in BadEventLines
    /\ Len(data) >= 1
    /\ ret = <<>>

\* the line begins with one of the seven tags
HasTag(line) ==
    \/ Slice(line, 0, 3) = TagMSG
    \/ Slice(line, 0, 6) \in {TagSFIX, TagEFIX, TagSBLINK, TagEBLINK}
    \/ Slice(line, 0, 7) \in {TagSSACC, TagESACC}

\* an untagged line with an integer timestamp and a pupil size equal to zero
IsZeroPupilSample(line) ==
    /\ ~HasTag(line)
    /\ LET l == Split(line, "\t")
       IN  IsInt(l[1]) /\ Len(l) >= 4 /\ IsFloat(l[4]) /\ FloatOf(l[4]) = Zero

\* C12: a sample line with pupil size zero, classified inside an open trial,
\* is accepted whatever the text of its x and y fields, and the entries it
\* appends to x, y and size are all 0.0.
C12_ZeroPupilForcesZero ==
    [][(InLoop /\ started /\ started' /\ IsZeroPupilSample(raw[idx])) =>
           /\ pc' = "loop"
           /\ Len(x') = (IF data' = data THEN Len(x) ELSE 0) + 1
           /\ Len(y') = Len(x') /\ Len(size') = Len(x')
           /\ x'[Len(x')] = Zero
           /\ y'[Len(y')] = Zero
           /\ size'[Len(size')] = Zero]_vars

\* a zero-pupil sample with a lone period and a non-number for x and y was
\* accepted in a call whose missing value is not 0.0
C12_Witness ==
    /\ pc = "loop"
    /\ idx > 2
    /\ started
    /\ raw[idx - 1] = LZeroDot
    /\ missing = MinusOne
    /\ Len(x) >= 1
    /\ x[Len(x)] = Zero /\ y[Len(y)] = Zero /\ size[Len(size)] = Zero

\* the last entry of a sequence
Last(q) == q[Len(q)]

\* the decimal 300.5
D300_5 == [m |-> 3005, e |-> 1]

\* the decimal 3.5
D3_5 == [m |-> 35, e |-> 1]

\* C13: replace_missing gives the missing value exactly for a field that is a
\* lone period once its spaces are removed, and the number written otherwise:
\* the EFIX L line with fields 100, 200, 100, '.', 300.5 appends
\* [100, 200, 100, missing, 300.5] to Efix, and the ESACC L line with
\* coordinates '1.0', ' .', '2', '3.5' appends [.., 1.0, missing, 2.0, 3.5].
C13_MissingOnlyForLonePeriod ==
    [][(InLoop /\ started /\ started') =>
           /\ raw[idx] = LEfix =>
                  /\ pc' = "loop"
                  /\ events'.Efix # <<>>
                  /\ Last(events'.Efix) = <<100, 200, 100, missing, D300_5>>
           /\ raw[idx] = LEsac =>
                  /\ pc' = "loop"
                  /\ events'.Esac # <<>>
                  /\ Last(events'.Esac) =
                         <<14, 16, 2, FloatOfInt(1), missing, FloatOfInt(2), D3_5>>]_vars

\* the EFIX L line of the scenario was read with missing=-1.0
C13_Witness ==
    /\ pc = "loop"
    /\ idx > 2
    /\ started
    /\ raw[idx - 1] = LEfix
    /\ missing = MinusOne
    /\ Len(events.Efix) >= 1
    /\ Last(events.Efix)[4] = MinusOne

\* the elements of a sequence
Range(q) == {q[k] : k \in 1..Len(q)}

\* the timestamps written on a line of LinesEv that is well formed
TimesOn(line) ==
    CASE line = LStartA -> {10}
      [] line = LStop -> {30}
      [] line = LSfix -> {12}
      [] line = LEfix -> {100, 200}
      [] line = LSsac -> {14}
      [] line = LEsac -> {14, 16}
      [] line = LSblk -> {17}
      [] line = LEblk -> {17, 19}
      [] OTHER -> {}

\* the timestamps written on the event lines of the input
Written == UNION {TimesOn(raw[k]) : k \in 1..Len(raw)}

\* the timestamps held in an events dict: the time of a message, the start
\* time of a start event, the start and end time of an end event
StampsIn(ev) ==
    {e[1] : e \in Range(ev.msg)}
        \cup {e.v : e \in {f \in Range(ev.Sfix) \cup Range(ev.Ssac) \cup Range(ev.Sblk) :
                              f.shape = "int"}}
        \cup {e.v[1] : e \in {f \in Range(ev.Sfix) \cup Range(ev.Ssac) \cup Range(ev.Sblk) :
                                 f.shape = "list"}}
        \cup UNION {{e[1], e[2]} : e \in Range(ev.Efix) \cup Range(ev.Esac) \cup Range(ev.Eblk)}

\* C14: every timestamp in an events slot, of a closed trial or of the one
\* being built, is an integer written on an event line of the input: tracker
\* time, never lowered by the start timestamp of the trial.
C14_EventTimesAreTrackerTimes ==
    \A ev \in {data[k].events : k \in 1..Len(data)} \cup {events} :
        StampsIn(ev) \subseteq Written

\* in a trial that began at 10 a fixation start at 12 is held as 12, while
\* the sample at 25 has time 15
C14_Witness ==
    /\ pc = "loop"
    /\ starttime = 10
    /\ 12 \in StampsIn(events)
    /\ time = <<15>>
    /\ trackertime = <<25>>

\* the events dicts of the closed trials and of the trial being built
AllEvents == {data[k].events : k \in 1..Len(data)} \cup {events}

\* C15: every entry of Sfix, Ssac and Sblk is a one-element list [start_time],
\* not a bare integer.
C15_StartEntriesAreLists ==
    \A ev \in AllEvents :
        \A e \in Range(ev.Sfix) \cup Range(ev.Ssac) \cup Range(ev.Sblk) :
            e.shape = "list" /\ Len(e.v) = 1

(***************************************************************************)
(* Trials and the lines they are made of                                   *)
(***************************************************************************)

\* what the lines raw[lo..hi], classified in order, add to the buffers b
RECURSIVE Accumulate(_, _, _)
Accumulate(lo, hi, b) ==
    IF lo > hi THEN b
    ELSE Accumulate(lo + 1, hi, ParseLine(raw[lo], b, 0, missing).b)

\* two sets of buffers (or trials) hold the same entries; time is left out,
\* as it depends on the start timestamp in force
SameEntries(a, b) ==
    /\ a.x = b.x /\ a.y = b.y /\ a.size = b.size
    /\ a.trackertime = b.trackertime
    /\ a.events = b.events

\* C16: trials follow each other without overlap, in the order of the input:
\* trial k holds exactly what the lines from the one that opened it up to,
\* not including, the one that closed it add to empty buffers, trial k+1
\* opens no earlier than trial k closed, and the buffers hold nothing while
\* Idle and only the lines of the open trial otherwise.
C16_TrialsDoNotOverlap ==
    /\ \A k \in 1..Len(data) :
          /\ 1 <= hist[k].open /\ hist[k].open < hist[k].close
          /\ k > 1 => hist[k - 1].close <= hist[k].open
          /\ SameEntries(data[k], Accumulate(hist[k].open, hist[k].close - 1, EmptyBufs))
    /\ (pc = "loop" /\ ~started) => Bufs = EmptyBufs
    /\ (pc = "loop" /\ started) =>
          /\ Len(data) > 0 => hist[Len(data)].close <= opener
          /\ SameEntries(Bufs, Accumulate(opener, idx - 1, EmptyBufs))

\* a trial with a sample was closed by the line that opened the next trial
C16_Witness ==
    /\ pc = "loop"
    /\ started
    /\ Len(data) = 1
    /\ Len(data[1].x) = 1
    /\ hist[1].close = opener
    /\ events.msg # <<>>
    /\ x = <<>>

\* C17: a step leaves the Document as it is or appends one trial to it; the
\* trials already in it keep their place and every field.
C17_ClosedTrialsImmutable ==
    [][/\ Len(data') \in {Len(data), Len(data) + 1}
       /\ SubSeq(data', 1, Len(data)) = data]_vars

\* a second, different trial was appended after the first
C17_Witness ==
    /\ Len(data) = 2
    /\ data[1] # data[2]
    /\ Len(data[1].x) = 1

\* C20: with a stop marker, the line that closes a trial is not classified:
\* the closed trial is the buffers as they were before the line, and the
\* buffers the next trial starts from are empty after it.
C20_StopLineNotRecorded ==
    [][(InLoop /\ stop # None /\ started /\ Contains(stop, raw[idx])) =>
           /\ pc' = "loop"
           /\ data' = Append(data, Trial(Bufs))
           /\ Bufs' = EmptyBufs]_vars

\* a MSG line with the stop marker closed a trial that holds the start
\* line's message only
C20_Witness ==
    /\ stop # None
    /\ pc = "loop"
    /\ idx = 3
    /\ raw[2] = LStop
    /\ Len(data) = 1
    /\ Len(data[1].events.msg) = 1
    /\ Bufs = EmptyBufs

(***************************************************************************)
(* Calls compared                                                          *)
(***************************************************************************)

\* the calls that have ended, in order
AllCalls == log \o (IF pc \in {"done", "failed"} THEN <<Ended>> ELSE <<>>)

\* C18: two calls on the same lines with the same stop and missing arguments
\* end the same way and return equal Documents, whatever was parsed before
\* or in between.
C18_SameInputSameDocument ==
    \A i, j \in 1..Len(AllCalls) :
        LET c == AllCalls[i]
            d == AllCalls[j]
        IN  (c.raw = d.raw /\ c.stop = d.stop /\ c.missing = d.missing) =>
                (c.pc = d.pc /\ c.ret = d.ret)

\* the first and the third call had the same arguments and returned a trial,
\* the second parsed another file and returned a trial too
C18_Witness ==
    /\ pc = "done"
    /\ Len(log) = 2
    /\ log[1].raw = raw /\ log[1].stop = stop /\ log[1].missing = missing
    /\ log[2].raw # raw
    /\ log[2].pc = "done" /\ Len(log[2].ret) >= 1
    /\ Len(ret) >= 1

\* the entries of an Efix or Esac slot agree on st, et and dur
SameButCoords(p, q) ==
    /\ Len(p) = Len(q)
    /\ \A n \in 1..Len(p) :
          Len(p[n]) = Len(q[n]) /\ SubSeq(p[n], 1, 3) = SubSeq(q[n], 1, 3)

\* two trials agree on everything but the coordinates of Efix and Esac
SameButGaze(t, u) ==
    /\ t.x = u.x /\ t.y = u.y /\ t.size = u.size
    /\ t.time = u.time /\ t.trackertime = u.trackertime
    /\ t.events.msg = u.events.msg
    /\ t.events.Sfix = u.events.Sfix
    /\ t.events.Ssac = u.events.Ssac
    /\ t.events.Sblk = u.events.Sblk
    /\ t.events.Eblk = u.events.Eblk
    /\ SameButCoords(t.events.Efix, u.events.Efix)
    /\ SameButCoords(t.events.Esac, u.events.Esac)

\* C19: two calls on the same lines with the same markers end the same way
\* and return as many trials, equal in x, y, size, time, trackertime, msg,
\* Sfix, Ssac, Sblk and Eblk and in st, et and dur of Efix and Esac, whatever
\* their missing arguments; a sample of pupil size zero has x = y = 0.0.
C19_MissingOnlyInGazeCoords ==
    /\ \A i, j \in 1..Len(AllCalls) :
          LET c == AllCalls[i]
              d == AllCalls[j]
          IN  (c.raw = d.raw /\ c.stop = d.stop) =>
                  /\ c.pc = d.pc
                  /\ Len(c.ret) = Len(d.ret)
                  /\ \A k \in 1..Len(c.ret) : SameButGaze(c.ret[k], d.ret[k])
    /\ \A i \in 1..Len(AllCalls) :
          \A k \in 1..Len(AllCalls[i].ret) :
              LET t == AllCalls[i].ret[k]
              IN  \A n \in 1..Len(t.size) :
                      t.size[n] = Zero => (t.x[n] = Zero /\ t.y[n] = Zero)

\* the file with the lone-period fixation and the zero-pupil sample was parsed
\* with missing=0.0 and then with missing=-1.0
C19_Witness ==
    /\ pc = "done"
    /\ Len(log) >= 1
    /\ raw = RawFix /\ log[1].raw = RawFix /\ log[1].stop = stop
    /\ log[1].missing = Zero /\ missing = MinusOne
    /\ ret[1].events.Efix[1][4] = MinusOne
    /\ log[1].ret[1].events.Efix[1][4] = Zero
    /\ ret[1].x = <<Zero>> /\ ret[1].size = <<Zero>>

(***************************************************************************)
(* Lines read while Idle                                                   *)
(***************************************************************************)

\* C21: a line without the start marker that is read while no trial is open
\* has no effect and does not fail: the buffers, the start timestamp, started
\* and the Document stay as they are and the loop goes on, also when the line
\* is an event line whose fields do not parse or a sample line.
C21_IdleLineNoEffect ==
    [][(InLoop /\ ~started /\ ~Contains(start, raw[idx])) =>
           /\ NoEffect
           /\ UNCHANGED <<opener, hist, ret>>]_vars

\* an SFIX L line with a bad field and then a sample were read before any
\* start line, and the loop is still running with nothing stored
C21_Witness ==
    /\ pc = "loop"
    /\ idx = 3
    /\ raw[1] = LSfixBad
    /\ raw[2] \in {LSample, LSampleBadY}
    /\ ~started
    /\ starttime = 0
    /\ data = <<>>
    /\ Bufs = EmptyBufs

====
